---- MODULE Spec2Model ----
(***************************************************************************)
(* Enquiry ingestion and read-side of the L&D backend.                     *)
(*                                                                         *)
(* Two FastAPI applications live in the repository and both serve          *)
(* POST /enquiries and GET /enquiries on the "enquiry" collection:         *)
(*   "root"    : src/main.py with src/schemas.py (synchronous, SendGrid    *)
(*               notification, database module not among the sources)      *)
(*   "backend" : src/backend/main.py with src/backend/schemas.py and       *)
(*               src/backend/database.py (motor, no notification)          *)
(*                                                                         *)
(* Texts whose content never matters are represented by their length       *)
(* (name, message); e-mail addresses are sequences of characters so that   *)
(* the address grammar is something a value can fail.                      *)
(***************************************************************************)
EXTENDS Integers, Sequences, FiniteSets, TLC

VARIABLES
    store,      \* the "enquiry" collection: documents in insertion order
    now,        \* the wall clock read by datetime.utcnow()/now()
    environ,    \* the process environment read once at import (os.getenv)
    last        \* the exchange (request and response) completed last

vars == <<store, now, environ, last>>

---------------------------------------------------------------------------
(* Bounds of the model *)
MaxStore == 2      \* documents held, Spec
MaxAccepted == 1   \* documents held, SpecValidate and SpecNotify
MaxDocs == 3       \* documents held, SpecRead
MaxTick == 1       \* clock ticks, Spec, SpecValidate and SpecNotify
MaxTime == 2       \* clock ticks, SpecRead

(* Program constants *)
NameMin == 2
NameMax == 120
MessageMin == 5
MessageMax == 5000
RootDefaultLimit == 100
BackendDefaultLimit == 50

None == "None"
Services == {"root", "backend"}

---------------------------------------------------------------------------
(* Request bodies *)

GoodEmail == <<"a", "@", "b", ".", "c">>
BadEmails == { <<"a", "b">>, <<"a", "@", "b">>, <<"@", "b", ".", "c">>, <<>> }

Base == [name |-> NameMin, email |-> GoodEmail, message |-> MessageMin]

\* JSON bodies: a field that is missing is missing from the DOMAIN.
Payloads ==
    {Base}
    \cup {[Base EXCEPT !.name = n] : n \in {0, NameMin - 1, NameMax, NameMax + 1}}
    \cup {[email |-> GoodEmail, message |-> MessageMin]}
    \cup {[Base EXCEPT !.email = e] : e \in BadEmails}
    \cup {[name |-> NameMin, message |-> MessageMin]}
    \cup {[name |-> NameMin, email |-> GoodEmail]}

Has(p, f) == f \in DOMAIN p

\* pydantic EmailStr: exactly one "@", a non-empty local part, and a domain
\* holding a period that is neither its first nor its last character.
IsEmail(e) ==
    LET ats == {i \in 1..Len(e) : e[i] = "@"}
    IN  /\ Cardinality(ats) = 1
        /\ LET a == CHOOSE i \in ats : TRUE
           IN  /\ a > 1
               /\ e[1] # "."
               /\ \E d \in (a + 2)..(Len(e) - 1) : e[d] = "."

\* Variant: email declared str instead of EmailStr.
RootValid_any_email(p) ==
    /\ Has(p, "name")
    /\ Has(p, "email")
    /\ Has(p, "message") /\ p.message >= MessageMin

\* src/schemas.py Enquiry: name, email, message required; message min_length 5;
\* no length constraint on name.
RootValid(p) ==
    /\ Has(p, "name")
    /\ Has(p, "email") /\ IsEmail(p.email)
    /\ Has(p, "message") /\ p.message >= MessageMin

\* The validated model of src/schemas.py, defaults filled in.
RootEnquiry(p) ==
    [name |-> p.name, email |-> p.email,
     phone |-> None, company |-> None, service |-> None,
     message |-> p.message, consent |-> FALSE, source |-> None]

\* src/backend/schemas.py Enquiry: name in [2, 120], email, message optional
\* with default "" and at most 5000 characters.
BackendValid(p) ==
    /\ Has(p, "name") /\ p.name >= NameMin /\ p.name <= NameMax
    /\ Has(p, "email") /\ IsEmail(p.email)
    /\ (Has(p, "message") => p.message <= MessageMax)

BackendEnquiry(p) ==
    [name |-> p.name, email |-> p.email,
     message |-> IF Has(p, "message") THEN p.message ELSE 0]

---------------------------------------------------------------------------
(* Renderings *)

\* str(ObjectId): a non-empty text, one per identifier.
OidStr(n) == "oid" \o ToString(n)

\* datetime.isoformat()
IsoFormat(t) == "T" \o ToString(t)

---------------------------------------------------------------------------
(* Configuration: module constants of src/main.py, read from the environment *)

Unset == "<unset>"
EnvValues == {Unset, "", "set"}
Environments ==
    [{"SENDGRID_API_KEY", "NOTIFY_EMAIL", "FROM_EMAIL"} -> EnvValues]

\* os.getenv(name, default)
getenv(env, name, default) == IF env[name] = Unset THEN default ELSE env[name]

\* Python truthiness of an optional text: None and "" are false.
Falsy(x) == x = None \/ x = ""

\* x or y
OrElse(x, y) == IF Falsy(x) THEN y ELSE x

SENDGRID_API_KEY(env) == getenv(env, "SENDGRID_API_KEY", None)
NOTIFY_EMAIL(env) == getenv(env, "NOTIFY_EMAIL", None)
FROM_EMAIL(env) ==
    getenv(env, "FROM_EMAIL", OrElse(NOTIFY_EMAIL(env), "no-reply@example.com"))

---------------------------------------------------------------------------
(* Storage *)

\* {**data, "created_at": now, "updated_at": now}: the later keys win.
Stamped(data, t) == [created_at |-> t, updated_at |-> t] @@ data

\* collection.insert_one(doc): the collection assigns a fresh ObjectId and
\* appends the document.
insert_one(coll, doc) ==
    LET oid == Len(coll) + 1
    IN  [inserted_id |-> oid, store |-> Append(coll, [_id |-> oid] @@ doc)]

\* database.create_document of the root application. The write either
\* happens and yields the identifier as text, or raises and writes nothing.
create_document(coll, data, t, dbOk) ==
    IF ~dbOk
    THEN [raised |-> TRUE, store |-> coll, id |-> None]
    ELSE LET res == insert_one(coll, Stamped(data, t))
         IN  [raised |-> FALSE, store |-> res.store,
              id |-> OidStr(res.inserted_id)]

\* Variant: the write replaces what the collection held (an upsert in place
\* of an insert).
backend_create_document_replaces(coll, data, t, dbOk) ==
    IF ~dbOk
    THEN [raised |-> TRUE, store |-> coll, doc |-> <<>>]
    ELSE LET doc == Stamped(data, t)
             res == insert_one(<<>>, doc)
         IN  [raised |-> FALSE, store |-> res.store,
              doc |-> [_id |-> OidStr(res.inserted_id),
                       created_at |-> IsoFormat(doc.created_at),
                       updated_at |-> IsoFormat(doc.updated_at)] @@ doc]

\* src/backend/database.py create_document: returns the stored document with
\* its identifier and timestamps rendered as text.
backend_create_document(coll, data, t, dbOk) ==
    IF ~dbOk
    THEN [raised |-> TRUE, store |-> coll, doc |-> <<>>]
    ELSE LET doc == Stamped(data, t)
             res == insert_one(coll, doc)
         IN  [raised |-> FALSE, store |-> res.store,
              doc |-> [_id |-> OidStr(res.inserted_id),
                       created_at |-> IsoFormat(doc.created_at),
                       updated_at |-> IsoFormat(doc.updated_at)] @@ doc]

---------------------------------------------------------------------------
(* Notification *)

MailOutcomes == {"accepted", "rejected", "error"}

\* Variant: the exception of requests.post is not caught.
send_notification_email_raises(env, enquiry, mail) ==
    IF \/ Falsy(SENDGRID_API_KEY(env))
       \/ Falsy(NOTIFY_EMAIL(env))
       \/ Falsy(FROM_EMAIL(env))
    THEN [called |-> FALSE, result |-> FALSE, raised |-> FALSE]
    ELSE [called |-> TRUE, result |-> (mail = "accepted"),
          raised |-> (mail = "error")]

\* Variant: only the API key is looked at before the call.
send_notification_email_key_only(env, enquiry, mail) ==
    IF Falsy(SENDGRID_API_KEY(env))
    THEN [called |-> FALSE, result |-> FALSE, raised |-> FALSE]
    ELSE [called |-> TRUE, result |-> (mail = "accepted"), raised |-> FALSE]

\* src/main.py send_notification_email. mail is what the provider does with
\* the call: 2xx, non-2xx, or an exception out of requests.post.
send_notification_email(env, enquiry, mail) ==
    IF \/ Falsy(SENDGRID_API_KEY(env))
       \/ Falsy(NOTIFY_EMAIL(env))
       \/ Falsy(FROM_EMAIL(env))
    THEN [called |-> FALSE, result |-> FALSE, raised |-> FALSE]
    ELSE [called |-> TRUE, result |-> (mail = "accepted"), raised |-> FALSE]

---------------------------------------------------------------------------
(* POST /enquiries *)

Rejected422 == [code |-> 422, body |-> [detail |-> "validation"]]
Error500 == [code |-> 500, body |-> [detail |-> "error"]]

\* What one POST did: the response, the collection afterwards, the stages it
\* went through in order, and the number of storage and provider calls.
Outcome(resp, coll, trace, nStore, nMail) ==
    [resp |-> resp, store |-> coll, trace |-> trace,
     storeAttempts |-> nStore, notifyCalls |-> nMail]

\* Variant: the except clause answers as if the enquiry had been received.
create_enquiry_swallows(coll, env, t, p, dbOk, mail) ==
    IF ~RootValid(p)
    THEN Outcome(Rejected422, coll, <<"Received">>, 0, 0)
    ELSE
      LET enquiry == RootEnquiry(p)
          saved == create_document(coll, enquiry, t, dbOk)
          sent == send_notification_email(env, enquiry, mail)
          calls == IF ~saved.raised /\ sent.called THEN 1 ELSE 0
          stages == <<"Received", "Validated">>
                    \o (IF saved.raised THEN <<>> ELSE <<"Stored">>)
                    \o (IF calls = 1 THEN <<"NotifyAttempted">> ELSE <<>>)
      IN  Outcome([code |-> 201,
                   body |-> [id |-> saved.id, status |-> "received"]],
                  saved.store, Append(stages, "Responded"), 1, calls)

\* Variant: the notification is sent before the enquiry is stored.
create_enquiry_notify_first(coll, env, t, p, dbOk, mail) ==
    IF ~RootValid(p)
    THEN Outcome(Rejected422, coll, <<"Received">>, 0, 0)
    ELSE
      LET enquiry == RootEnquiry(p)
          sent == send_notification_email(env, enquiry, mail)
          calls == IF sent.called THEN 1 ELSE 0
          stages == <<"Received", "Validated">>
                    \o (IF sent.called THEN <<"NotifyAttempted">> ELSE <<>>)
          saved == create_document(coll, enquiry, t, dbOk)
      IN  IF saved.raised
          THEN Outcome(Error500, saved.store, stages, 1, calls)
          ELSE Outcome([code |-> 201,
                        body |-> [id |-> saved.id, status |-> "received"]],
                       saved.store, stages \o <<"Stored", "Responded">>, 1, calls)

\* src/main.py create_enquiry, behind the framework's body validation.
create_enquiry(coll, env, t, p, dbOk, mail) ==
    IF ~RootValid(p)
    THEN Outcome(Rejected422, coll, <<"Received">>, 0, 0)
    ELSE
      LET enquiry == RootEnquiry(p)
          saved == create_document(coll, enquiry, t, dbOk)
      IN  IF saved.raised
          THEN Outcome(Error500, saved.store, <<"Received", "Validated">>, 1, 0)
          ELSE
            LET sent == send_notification_email(env, enquiry, mail)
                calls == IF sent.called THEN 1 ELSE 0
                stages == <<"Received", "Validated", "Stored">>
                          \o (IF sent.called THEN <<"NotifyAttempted">> ELSE <<>>)
            IN  IF sent.raised
                THEN Outcome(Error500, saved.store, stages, 1, calls)
                ELSE Outcome([code |-> 201,
                              body |-> [id |-> saved.id, status |-> "received"]],
                             saved.store, Append(stages, "Responded"), 1, calls)

\* Variant: the response is built from the request body, which has no _id.
backend_create_enquiry_echo(coll, t, p, dbOk) ==
    IF ~BackendValid(p)
    THEN Outcome(Rejected422, coll, <<"Received">>, 0, 0)
    ELSE
      LET saved == backend_create_document(coll, BackendEnquiry(p), t, dbOk)
      IN  IF saved.raised
          THEN Outcome(Error500, saved.store, <<"Received", "Validated">>, 1, 0)
          ELSE Outcome([code |-> 200,
                        body |-> [id |-> "",
                                  name |-> p.name,
                                  email |-> p.email,
                                  message |-> BackendEnquiry(p).message,
                                  created_at |-> saved.doc.created_at]],
                       saved.store,
                       <<"Received", "Validated", "Stored", "Responded">>, 1, 0)

\* src/backend/main.py create_enquiry: no notification, no status_code, the
\* body is the EnquiryResponse projection of the saved document.
backend_create_enquiry(coll, t, p, dbOk) ==
    IF ~BackendValid(p)
    THEN Outcome(Rejected422, coll, <<"Received">>, 0, 0)
    ELSE
      LET saved == backend_create_document(coll, BackendEnquiry(p), t, dbOk)
      IN  IF saved.raised
          THEN Outcome(Error500, saved.store, <<"Received", "Validated">>, 1, 0)
          ELSE Outcome([code |-> 200,
                        body |-> [id |-> saved.doc._id,
                                  name |-> saved.doc.name,
                                  email |-> saved.doc.email,
                                  message |-> saved.doc.message,
                                  created_at |-> saved.doc.created_at]],
                       saved.store,
                       <<"Received", "Validated", "Stored", "Responded">>, 1, 0)

Handle(svc, coll, env, t, p, dbOk, mail) ==
    IF svc = "root"
    THEN create_enquiry(coll, env, t, p, dbOk, mail)
    ELSE backend_create_enquiry(coll, t, p, dbOk)

---------------------------------------------------------------------------
(* GET /enquiries *)

Min(a, b) == IF a <= b THEN a ELSE b
Abs(n) == IF n < 0 THEN -n ELSE n

\* Every order of coll's documents that a sort on created_at, descending, may
\* produce: documents with equal created_at come in any order.
SortedDesc(coll) ==
    LET n == Len(coll)
        orders == {[i \in 1..n |-> coll[f[i]]] : f \in Permutations(1..n)}
    IN  IF n = 0 THEN {<<>>}
        ELSE {s \in orders :
                \A i, j \in 1..n : i < j => s[i].created_at >= s[j].created_at}

\* cursor.limit(n): 0 is no limit, a negative n counts as -n.
Limited(docs, limit) ==
    IF limit = 0 THEN docs ELSE SubSeq(docs, 1, Min(Abs(limit), Len(docs)))

\* Variant: the calls act in the order written, limit before sort.
FindLimitedThenSorted(coll, limit) == SortedDesc(Limited(coll, limit))

\* find(filter).limit(limit).sort("created_at", -1): the options are set on
\* the cursor, the server sorts and then limits. No filter is ever given.
FindSorted(coll, limit) == {Limited(s, limit) : s \in SortedDesc(coll)}

\* database.get_documents of the root application: the documents as stored,
\* newest first, limited.
get_documents(coll, limit) == FindSorted(coll, limit)

\* src/backend/database.py get_documents: identifiers and timestamps as text.
BackendItem(d) ==
    [_id |-> OidStr(d._id),
     created_at |-> IsoFormat(d.created_at),
     updated_at |-> IsoFormat(d.updated_at)] @@ d

backend_get_documents(coll, limit) ==
    {[i \in 1..Len(docs) |-> BackendItem(docs[i])] : docs \in FindSorted(coll, limit)}

\* src/main.py list_enquiries, per document: _id is popped into id, the
\* timestamps are rendered.
RootItem(d) ==
    [k \in (DOMAIN d \ {"_id"}) \cup {"id"} |->
        CASE k = "id" -> OidStr(d._id)
          [] k \in {"created_at", "updated_at"} -> IsoFormat(d[k])
          [] OTHER -> d[k]]

\* The responses a GET /enquiries may get: one per order the store may answer in.
list_enquiries(coll, limit, dbOk) ==
    IF ~dbOk THEN {Error500}
    ELSE {[code |-> 200,
           body |-> [items |-> [i \in 1..Len(docs) |-> RootItem(docs[i])],
                     count |-> Len(docs)]] : docs \in get_documents(coll, limit)}

\* src/backend/main.py list_enquiries: the list itself is the body; an
\* exception is not caught and becomes the framework's 500.
backend_list_enquiries(coll, limit, dbOk) ==
    IF ~dbOk THEN {Error500}
    ELSE {[code |-> 200, body |-> [items |-> items]] :
            items \in backend_get_documents(coll, limit)}

DefaultLimit(svc) == IF svc = "root" THEN RootDefaultLimit ELSE BackendDefaultLimit

ListResponses(svc, coll, limit, dbOk) ==
    IF svc = "root"
    THEN list_enquiries(coll, limit, dbOk)
    ELSE backend_list_enquiries(coll, limit, dbOk)

\* The identifier an item of either application carries.
ItemId(svc, item) == IF svc = "root" THEN item.id ELSE item._id

IdsOf(svc, resp) ==
    [i \in 1..Len(resp.body.items) |-> ItemId(svc, resp.body.items[i])]

---------------------------------------------------------------------------
(* The other GET endpoints *)

\* src/main.py read_root, test_database, get_case_studies, get_accreditations
read_root(t) ==
    [code |-> 200, body |-> [message |-> "L&D Backend Running", time |-> IsoFormat(t)]]

test_database(env, dbOk) ==
    [code |-> 200,
     body |-> [backend |-> "Running",
               connection_status |-> IF dbOk THEN "Connected" ELSE "Not Connected",
               collections |-> IF dbOk THEN <<"enquiry">> ELSE <<>>]]

get_case_studies == [code |-> 200, body |-> [items |-> 2]]

get_accreditations == [code |-> 200, body |-> [items |-> 3]]

\* src/backend/main.py root, test_db
backend_root == [code |-> 200, body |-> [status |-> "ok", service |-> "ld-uk"]]

backend_test_db(coll, dbOk) ==
    IF ~dbOk THEN {Error500}
    ELSE {[code |-> 200, body |-> [ok |-> TRUE, sample |-> items]] :
            items \in backend_get_documents(coll, 1)}

StaticResponses(svc, path, coll, env, t, dbOk) ==
    CASE svc = "root" /\ path = "/" -> {read_root(t)}
      [] svc = "root" /\ path = "/test" -> {test_database(env, dbOk)}
      [] svc = "root" /\ path = "/case-studies" -> {get_case_studies}
      [] svc = "root" /\ path = "/accreditations" -> {get_accreditations}
      [] svc = "backend" /\ path = "/" -> {backend_root}
      [] svc = "backend" /\ path = "/test" -> backend_test_db(coll, dbOk)

Routes ==
    {<<"root", "/">>, <<"root", "/test">>, <<"root", "/case-studies">>,
     <<"root", "/accreditations">>, <<"backend", "/">>, <<"backend", "/test">>}

---------------------------------------------------------------------------
(* Requests *)

NoExchange == [kind |-> "none"]

\* One POST /enquiries, start to response. cap bounds the collection.
PostEnquiry(svc, p, dbOk, mail, cap) ==
    LET out == Handle(svc, store, environ, now, p, dbOk, mail)
    IN  /\ Len(out.store) <= cap
        /\ store' = out.store
        /\ last' = [kind |-> "post", svc |-> svc, payload |-> p,
                    before |-> store, resp |-> out.resp, trace |-> out.trace,
                    storeAttempts |-> out.storeAttempts,
                    notifyCalls |-> out.notifyCalls,
                    storage |-> IF out.storeAttempts = 0 THEN "not called"
                                ELSE IF dbOk THEN "ok" ELSE "failed",
                    mail |-> IF out.notifyCalls > 0 THEN mail ELSE None]
        /\ UNCHANGED <<now, environ>>

\* One GET /enquiries?limit=N
GetEnquiries(svc, limit, dbOk) ==
    \E resp \in ListResponses(svc, store, limit, dbOk) :
        /\ last' = [kind |-> "get", svc |-> svc, path |-> "/enquiries",
                    limit |-> limit, before |-> store, resp |-> resp]
        /\ UNCHANGED <<store, now, environ>>

\* One GET of another endpoint
GetStatic(svc, path, dbOk) ==
    \E resp \in StaticResponses(svc, path, store, environ, now, dbOk) :
        /\ last' = [kind |-> "get", svc |-> svc, path |-> path,
                    before |-> store, resp |-> resp]
        /\ UNCHANGED <<store, now, environ>>

\* Time passes between requests; two requests may also see the same instant.
TickTo(cap) ==
    /\ now < cap
    /\ now' = now + 1
    /\ UNCHANGED <<store, environ, last>>

Tick == TickTo(MaxTick)

TickRead == TickTo(MaxTime)

InitWith(envs) ==
    /\ store = <<>>
    /\ now = 0
    /\ environ \in envs
    /\ last = NoExchange

AllSet == [v \in {"SENDGRID_API_KEY", "NOTIFY_EMAIL", "FROM_EMAIL"} |-> "set"]
AllUnset == [v \in {"SENDGRID_API_KEY", "NOTIFY_EMAIL", "FROM_EMAIL"} |-> Unset]

NoMessage == [name |-> NameMin, email |-> GoodEmail]
NoName == [email |-> GoodEmail, message |-> MessageMin]
NoEmail == [name |-> NameMin, message |-> MessageMin]
BadEmail == [Base EXCEPT !.email = <<"a", "b">>]

---------------------------------------------------------------------------
(* Spec: storage pipeline and reads, both applications, a few bodies *)

Init == InitWith({AllSet, AllUnset})

Post ==
    \E svc \in Services, p \in {Base, NoMessage, BadEmail},
       dbOk \in BOOLEAN, mail \in MailOutcomes :
        PostEnquiry(svc, p, dbOk, mail, MaxStore)

List ==
    \E svc \in Services, dbOk \in BOOLEAN :
        GetEnquiries(svc, DefaultLimit(svc), dbOk)

Static ==
    \E r \in Routes, dbOk \in BOOLEAN : GetStatic(r[1], r[2], dbOk)

Next == Post \/ List \/ Static \/ Tick

Spec == Init /\ [][Next]_vars

---------------------------------------------------------------------------
(* SpecValidate: every request body, both applications *)

PostAny ==
    \E svc \in Services, p \in Payloads, dbOk \in BOOLEAN :
        PostEnquiry(svc, p, dbOk, "accepted", MaxAccepted)

NextValidate == PostAny \/ Tick

SpecValidate == Init /\ [][NextValidate]_vars

---------------------------------------------------------------------------
(* SpecNotify: every configuration of the notification settings *)

InitNotify == InitWith(Environments)

PostNotify ==
    \E svc \in Services, p \in {Base, BadEmail},
       dbOk \in BOOLEAN, mail \in MailOutcomes :
        PostEnquiry(svc, p, dbOk, mail, MaxAccepted)

NextNotify == PostNotify \/ Tick

SpecNotify == InitNotify /\ [][NextNotify]_vars

---------------------------------------------------------------------------
(* SpecRead: listing with every limit, over stores with equal and unequal
   creation times *)

Limits(svc) == {-1, 0, 1, 2, DefaultLimit(svc)}

InitRead == InitWith({AllUnset})

PostBase ==
    \E dbOk \in BOOLEAN :
        PostEnquiry("backend", Base, dbOk, "accepted", MaxDocs)

ListLimit ==
    \E svc \in Services, dbOk \in BOOLEAN :
        \E limit \in Limits(svc) : GetEnquiries(svc, limit, dbOk)

NextRead == PostBase \/ ListLimit \/ TickRead

SpecRead == InitRead /\ [][NextRead]_vars

---------------------------------------------------------------------------
(* Vocabulary of the properties *)

IsPost == last.kind = "post"
IsList == last.kind = "get" /\ last.path = "/enquiries"

Is2xx(resp) == resp.code >= 200 /\ resp.code <= 299
Is4xx(resp) == resp.code >= 400 /\ resp.code <= 499
Is5xx(resp) == resp.code >= 500 /\ resp.code <= 599

ValidFor(svc, p) == IF svc = "root" THEN RootValid(p) ELSE BackendValid(p)

\* The last POST was valid for its application and its storage call succeeded.
Stored == IsPost /\ ValidFor(last.svc, last.payload) /\ last.storage = "ok"

StoredIds(coll) == {OidStr(coll[i]._id) : i \in 1..Len(coll)}

\* The request left the collection as it found it and called nothing.
NoSideEffect ==
    /\ last.storeAttempts = 0
    /\ last.notifyCalls = 0
    /\ store = last.before

\* Every GET /enquiries of either application that could follow now, storage
\* up, default limit, lists identifier id.
ListedNext(id) ==
    \A svc \in Services :
        \A r \in ListResponses(svc, store, DefaultLimit(svc), TRUE) :
            r.code = 200 /\ \E i \in 1..Len(r.body.items) : IdsOf(svc, r)[i] = id

\* Exactly one document was added, and it carries identifier id.
OneNewRecord(id) ==
    /\ Len(store) = Len(last.before) + 1
    /\ SubSeq(store, 1, Len(last.before)) = last.before
    /\ OidStr(store[Len(store)]._id) = id
    /\ Cardinality({i \in 1..Len(store) : OidStr(store[i]._id) = id}) = 1

---------------------------------------------------------------------------
(* C1 *)

---------------------------------------------------------------------------
(* C2 *)

MissingOrBadEmail(p) == ~Has(p, "email") \/ ~IsEmail(p.email)

\* C2 as claimed: a body missing name, email or message, or with an e-mail
\* that is no address, is answered 4xx and has no side effect (stated for the
\* requests that met no storage failure, which the claim covers as well).
C2_InvalidRejected ==
    (IsPost /\ last.storage # "failed"
            /\ (\/ ~Has(last.payload, "name")
                \/ ~Has(last.payload, "message")
                \/ MissingOrBadEmail(last.payload)))
        => Is4xx(last.resp) /\ NoSideEffect

\* C2 amended: a body missing name or email, or with an e-mail that is no
\* address, is answered 4xx with no side effect by both applications; a body
\* missing message is answered so by src/main.py only (src/backend/schemas.py
\* gives message the default "").
C2_InvalidRejectedPerSchema ==
    (IsPost /\ (\/ ~Has(last.payload, "name")
                \/ (last.svc = "root" /\ ~Has(last.payload, "message"))
                \/ MissingOrBadEmail(last.payload)))
        => Is4xx(last.resp) /\ NoSideEffect

C2_Witness ==
    /\ IsPost
    /\ last.svc = "root"
    /\ last.payload = NoMessage
    /\ last.resp.code = 422
    /\ Len(store) = 1
    /\ store = last.before

---------------------------------------------------------------------------
(* C7 *)

\* C7: a POST is accepted only if name is present with a length in [2, 120];
\* otherwise it is answered 4xx and nothing is stored (stated for the requests
\* that met no storage failure, which the claim covers as well).
C7_NameLength ==
    (IsPost /\ last.storage # "failed"
            /\ ~(/\ Has(last.payload, "name")
                 /\ last.payload.name >= NameMin
                 /\ last.payload.name <= NameMax))
        => Is4xx(last.resp) /\ store = last.before

---------------------------------------------------------------------------
(* C3 *)

\* C3: for a valid POST whose storage succeeded, the response is the one the
\* same request gets under every configuration and every way the provider can
\* answer, and it is never an error.
C3_NotificationIsolation ==
    Stored =>
        /\ Is2xx(last.resp)
        /\ \A env \in Environments, m \in MailOutcomes :
              Handle(last.svc, last.before, env, store[Len(store)].created_at,
                     last.payload, TRUE, m).resp = last.resp

C3_Witness ==
    /\ Stored
    /\ last.svc = "root"
    /\ last.notifyCalls = 1
    /\ last.mail = "error"
    /\ last.resp = [code |-> 201, body |-> [id |-> OidStr(1), status |-> "received"]]

---------------------------------------------------------------------------
(* C4 *)

\* C4: a POST whose storage call fails is answered 5xx without identifier and
\* without status, the collection is as before, and no GET /enquiries that
\* follows lists anything that was not there before.
C4_StorageFailure ==
    (IsPost /\ last.storage = "failed") =>
        /\ Is5xx(last.resp)
        /\ "id" \notin DOMAIN last.resp.body
        /\ "status" \notin DOMAIN last.resp.body
        /\ store = last.before
        /\ \A svc \in Services :
              \A r \in ListResponses(svc, store, DefaultLimit(svc), TRUE) :
                 \A i \in 1..Len(r.body.items) :
                    IdsOf(svc, r)[i] \in StoredIds(last.before)

C4_Witness ==
    /\ IsPost
    /\ last.storage = "failed"
    /\ last.resp.code = 500
    /\ Len(store) = 1

---------------------------------------------------------------------------
(* C5 *)

Settings == {"SENDGRID_API_KEY", "NOTIFY_EMAIL", "FROM_EMAIL"}

\* C5 as claimed: with any one of the three settings absent from the
\* environment, no POST calls the provider.
C5_SkippedWhenAnyAbsent ==
    (IsPost /\ \E v \in Settings : environ[v] = Unset) => last.notifyCalls = 0

\* C5 amended: with the API key or the recipient address absent or empty, or
\* the sender address set to the empty text, no POST calls the provider; an
\* absent sender address does not skip the step (the sender defaults to the
\* recipient address): a stored POST of src/main.py then calls the provider
\* once whenever key and recipient are set.
C5_SkippedWhenUnconfigured ==
    IsPost =>
        /\ (\/ environ["SENDGRID_API_KEY"] \in {Unset, ""}
            \/ environ["NOTIFY_EMAIL"] \in {Unset, ""}
            \/ environ["FROM_EMAIL"] = "") => last.notifyCalls = 0
        /\ (/\ Stored /\ last.svc = "root"
            /\ environ["SENDGRID_API_KEY"] = "set"
            /\ environ["NOTIFY_EMAIL"] = "set"
            /\ environ["FROM_EMAIL"] = Unset) => last.notifyCalls = 1

C5_Witness ==
    /\ Stored
    /\ last.svc = "root"
    /\ environ = [SENDGRID_API_KEY |-> "set", NOTIFY_EMAIL |-> Unset,
                  FROM_EMAIL |-> "set"]
    /\ last.notifyCalls = 0
    /\ last.resp.code = 201

---------------------------------------------------------------------------
(* C10 *)

Position(seq, x) == CHOOSE i \in 1..Len(seq) : seq[i] = x
Occurs(seq, x) == \E i \in 1..Len(seq) : seq[i] = x

Stages == <<"Received", "Validated", "Stored", "NotifyAttempted", "Responded">>

\* trace goes through the stages in their order, each at most once, leaving
\* out none but NotifyAttempted before the stage it stops at.
InStageOrder(trace) ==
    /\ \A i \in 1..Len(trace) : Occurs(Stages, trace[i])
    /\ \A i, j \in 1..Len(trace) :
          i < j => Position(Stages, trace[i]) < Position(Stages, trace[j])
    /\ \A i \in 1..Len(trace) :
          \A k \in 1..(Position(Stages, trace[i]) - 1) :
             Stages[k] # "NotifyAttempted" => Occurs(trace, Stages[k])

\* C10: a POST goes through Received, Validated, Stored, (NotifyAttempted),
\* Responded in that order, calls storage at most once and the provider at most
\* once, and calls the provider only after its own storage call succeeded: a
\* request that failed validation or storage never contacts the provider.
C10_StageOrder ==
    IsPost =>
        /\ InStageOrder(last.trace)
        /\ last.trace[1] = "Received"
        /\ last.storeAttempts <= 1
        /\ last.notifyCalls <= 1
        /\ Occurs(last.trace, "Validated") <=> ValidFor(last.svc, last.payload)
        /\ Occurs(last.trace, "Stored") <=> last.storage = "ok"
        /\ Occurs(last.trace, "Stored") <=> Len(store) = Len(last.before) + 1
        /\ Occurs(last.trace, "NotifyAttempted") <=> last.notifyCalls = 1
        /\ Occurs(last.trace, "Responded") <=> Is2xx(last.resp)
        /\ last.notifyCalls = 1 => Occurs(last.trace, "Stored")
        /\ (~ValidFor(last.svc, last.payload) \/ last.storage = "failed")
              => last.notifyCalls = 0

C10_Witness ==
    /\ IsPost
    /\ last.trace = Stages
    /\ last.notifyCalls = 1
    /\ last.storeAttempts = 1

---------------------------------------------------------------------------
(* C6 *)

DocOf(id) == CHOOSE i \in 1..Len(store) : OidStr(store[i]._id) = id

\* The last GET /enquiries answered with the min(n, stored) newest documents,
\* newest first.
NewestFirst(n) ==
    LET items == last.resp.body.items
        ids == IdsOf(last.svc, last.resp)
        listed == {DocOf(ids[i]) : i \in 1..Len(ids)}
    IN  /\ Len(items) = Min(n, Len(store))
        /\ \A i \in 1..Len(ids) : ids[i] \in StoredIds(store)
        /\ \A i, j \in 1..Len(ids) : i # j => ids[i] # ids[j]
        /\ \A i \in 1..Len(ids) :
              items[i].created_at = IsoFormat(store[DocOf(ids[i])].created_at)
        /\ \A i, j \in 1..Len(ids) :
              i < j => store[DocOf(ids[i])].created_at
                         >= store[DocOf(ids[j])].created_at
        /\ \A k \in (1..Len(store)) \ listed :
              \A i \in listed : store[i].created_at >= store[k].created_at

\* C6 as claimed: GET /enquiries?limit=N answers with the min(N, stored) most
\* recently created enquiries, newest first, for every N from 0 up.
C6_NewestFirstAnyLimit ==
    (IsList /\ last.resp.code = 200 /\ last.limit >= 0) => NewestFirst(last.limit)

\* C6 amended: the same for every N from 1 up (limit=0 is no limit to the
\* store and lists every enquiry).
C6_NewestFirst ==
    (IsList /\ last.resp.code = 200 /\ last.limit >= 1) => NewestFirst(last.limit)

C6_Witness ==
    /\ IsList
    /\ last.resp.code = 200
    /\ last.svc = "backend"
    /\ last.limit = 2
    /\ Len(store) = 3
    /\ store[1].created_at < store[2].created_at
    /\ store[2].created_at < store[3].created_at
    /\ IdsOf(last.svc, last.resp) = <<OidStr(3), OidStr(2)>>

---------------------------------------------------------------------------
(* C8 *)

\* C8: a GET changes nothing stored, and a GET /enquiries?limit=N repeated
\* with no POST in between gets the answer of the first, item for item
\* (stated for N from 1 up, which the claim covers as well).
C8_RepeatableReads ==
    /\ last.kind = "get" => store = last.before
    /\ (IsList /\ last.resp.code = 200 /\ last.limit >= 1) =>
          \A r \in ListResponses(last.svc, store, last.limit, TRUE) : r = last.resp

---------------------------------------------------------------------------
(* C9 *)

\* C9: no step removes or changes a stored enquiry: the collection only grows
\* at its end, identifiers stay distinct, and every enquiry carries the
\* created_at and updated_at it got, equal, at creation.
C9_Immutable ==
    [][/\ Len(store') >= Len(store)
       /\ SubSeq(store', 1, Len(store)) = store
       /\ \A i \in 1..Len(store') : store'[i].created_at = store'[i].updated_at
       /\ \A i, j \in 1..Len(store') : i # j => store'[i]._id # store'[j]._id]_vars

C9_Witness ==
    /\ last.kind = "get"
    /\ Len(store) = 2
    /\ store[1].created_at < store[2].created_at

====
